---- MODULE Spec2Model ----
(***************************************************************************)
(* Model of src/src/main.py: the chunk boundary planner (identify_chunks), *)
(* the chunk aggregator (process_chunk), the merge loop and the report     *)
(* writer of main.  File offsets are 0-based as in the code; a file is a   *)
(* sequence of bytes, each byte a one-character string.                    *)
(***************************************************************************)
EXTENDS Integers, Sequences, FiniteSets, TLC

VARIABLES file, num_processes, pc, start, chunk_results, status,
          list_of_chunk_results, merged_results, mi, written, output

vars == <<file, num_processes, pc, start, chunk_results, status,
          list_of_chunk_results, merged_results, mi, written, output>>

(* ------------------------------ bounds --------------------------------- *)
\* most lines in an input file of Spec
MaxLines == 3
\* largest worker count num_processes of Spec
MaxWorkers == 3
\* most PartialResults folded in SpecMerge
MaxParts == 3

(* ------------------------------ bytes ---------------------------------- *)
NL == "\n"

\* the bytes bytes.strip() removes (ASCII whitespace)
Whitespace == {" ", "\t", "\n", "\r"}

DigitChars == <<"0", "1", "2", "3", "4", "5", "6", "7", "8", "9">>

IsDigit(c) == \E i \in 1..10 : DigitChars[i] = c

DigitVal(c) == (CHOOSE i \in 1..10 : DigitChars[i] = c) - 1

\* the bytes of the model in ascending byte value (sorted() key order)
ByteOrder == <<"\n", " ", "-", ".", "0", "1", "2", "3", "4", "5", "6", "7",
               "8", "9", ";", "a", "b", "x">>

ByteRank(c) == CHOOSE i \in 1..Len(ByteOrder) : ByteOrder[i] = c

\* bytes comparison k1 < k2: lexicographic, a proper prefix is smaller
BytesLess(k1, k2) ==
    \/ Len(k1) < Len(k2) /\ SubSeq(k2, 1, Len(k1)) = k1
    \/ \E i \in 1..Len(k1) :
          /\ i <= Len(k2)
          /\ SubSeq(k1, 1, i - 1) = SubSeq(k2, 1, i - 1)
          /\ ByteRank(k1[i]) < ByteRank(k2[i])

SetMin(S) == CHOOSE x \in S : \A y \in S : x <= y

(* --------------------------- mmap helpers ------------------------------ *)
\* mmap.ALLOCATIONGRANULARITY: 4096 on the platform, scaled to the model's
\* file sizes (files of a few lines)
ALLOCATIONGRANULARITY == 2

\* is_new_line(position, mm): defined by the code, called nowhere
is_new_line(position, mm) ==
    IF position = 0 THEN TRUE ELSE mm[position] = NL

\* a next_line that forgets to scan to the line terminator
next_line_NoScan(position, mm) == position

\* next_line(position, mm): seek, readline, tell: the offset just after the
\* first terminator at or after position, or the end of the mapping
next_line(position, mm) ==
    LET hits == {j \in position..(Len(mm) - 1) : mm[j + 1] = NL}
    IN  IF hits = {} THEN (IF position > Len(mm) THEN position ELSE Len(mm))
        ELSE SetMin(hits) + 1

(* ----------------------------- parsing --------------------------------- *)
RECURSIVE LStrip(_)
LStrip(s) ==
    IF s # <<>> /\ Head(s) \in Whitespace THEN LStrip(Tail(s)) ELSE s

RECURSIVE RStrip(_)
RStrip(s) ==
    IF s # <<>> /\ s[Len(s)] \in Whitespace
    THEN RStrip(SubSeq(s, 1, Len(s) - 1)) ELSE s

\* bytes.strip()
Strip(s) == RStrip(LStrip(s))

\* bytes.find(c): 0-based index of the first c, -1 when absent
Find(s, c) ==
    LET hits == {j \in 0..(Len(s) - 1) : s[j + 1] = c}
    IN  IF hits = {} THEN -1 ELSE SetMin(hits)

RECURSIVE DigitsValue(_)
DigitsValue(ds) ==
    IF ds = <<>> THEN 0
    ELSE 10 * DigitsValue(SubSeq(ds, 1, Len(ds) - 1)) + DigitVal(ds[Len(ds)])

RECURSIVE Pow10(_)
Pow10(k) == IF k = 0 THEN 1 ELSE 10 * Pow10(k - 1)

Unsigned(t) == IF t # <<>> /\ t[1] = "-" THEN Tail(t) ELSE t

\* float(temp_str) succeeds: over the model's bytes the accepted texts are
\* an optional sign, digits with at most one point, at least one digit
FloatParses(t) ==
    LET body == Unsigned(t)
        dots == {i \in 1..Len(body) : body[i] = "."}
    IN  /\ Cardinality(dots) <= 1
        /\ \A i \in 1..Len(body) : i \in dots \/ IsDigit(body[i])
        /\ Len(body) - Cardinality(dots) >= 1

\* int(float(temp_str) * 10): ten times the value, truncated toward zero
Measurement(t) ==
    LET body == Unsigned(t)
        dp   == Find(body, ".")
        ip   == IF dp = -1 THEN body ELSE SubSeq(body, 1, dp)
        fp   == IF dp = -1 THEN <<>> ELSE SubSeq(body, dp + 2, Len(body))
        mag  == (DigitsValue(ip \o fp) * 10) \div Pow10(Len(fp))
    IN  IF t # <<>> /\ t[1] = "-" THEN -mag ELSE mag

(* ---------------------------- aggregation ------------------------------ *)
EmptyDict == [k \in {} |-> 0]

City(mn, mx, sm, cnt) == [min |-> mn, max |-> mx, sum |-> sm, count |-> cnt]

\* lines 57-67: update the record of location, or create it
UpdateCity(result, location, measurement) ==
    [k \in DOMAIN result \cup {location} |->
        IF k # location THEN result[k]
        ELSE IF location \in DOMAIN result
             THEN LET city == result[location]
                  IN  City(IF measurement < city.min THEN measurement ELSE city.min,
                           IF measurement > city.max THEN measurement ELSE city.max,
                           city.sum + measurement,
                           city.count + 1)
             ELSE City(measurement, measurement, measurement, 1)]

\* lines 41-67: the loop over mm.readline() from offset pos; float() of an
\* unparsable field raises, which ends the invocation without a result
RECURSIVE ReadLines(_, _, _)
ReadLines(mm, pos, result) ==
    IF pos >= Len(mm) THEN [ok |-> TRUE, result |-> result]
    ELSE LET np   == next_line(pos, mm)
             line == SubSeq(mm, pos + 1, np)
             semicolon_pos == Find(line, ";")
             location == SubSeq(line, 1, semicolon_pos)
             temp_str == Strip(SubSeq(line, semicolon_pos + 2, Len(line)))
         IN  \* readline always advances; the test only ends the recursion
             IF np <= pos THEN [ok |-> TRUE, result |-> result]
             ELSE IF Strip(line) = <<>> THEN ReadLines(mm, np, result)
             ELSE IF semicolon_pos = -1 THEN ReadLines(mm, np, result)
             ELSE IF ~FloatParses(temp_str) THEN [ok |-> FALSE, result |-> EmptyDict]
             ELSE ReadLines(mm, np, UpdateCity(result, location, Measurement(temp_str)))

\* process_chunk(chunk_start, chunk_end): mmap refuses an offset that is no
\* multiple of the allocation granularity; a range not starting at 0 has
\* its first line skipped
process_chunk(f, chunk_start, chunk_end) ==
    IF chunk_start % ALLOCATIONGRANULARITY # 0
    THEN [ok |-> FALSE, result |-> EmptyDict]
    ELSE LET mm   == SubSeq(f, chunk_start + 1, chunk_end)
             pos0 == IF chunk_start # 0 THEN next_line(0, mm) ELSE 0
         IN  ReadLines(mm, pos0, EmptyDict)

(* ------------------------------ planner -------------------------------- *)
\* lines 77-79
ChunkSize(file_size, n) ==
    LET chunk_size == file_size \div n
    IN  chunk_size + ALLOCATIONGRANULARITY - (chunk_size % ALLOCATIONGRANULARITY)

\* lines 82-86: the candidate end of the range starting at st
CandidateEnd(f, st, n) ==
    LET e0 == st + ChunkSize(Len(f), n)
        e1 == IF e0 < Len(f) THEN next_line(e0, f) ELSE e0
    IN  IF st = e1 THEN next_line(e1, f) ELSE e1

\* a planner that forgets to clamp the last range
ClampEnd_None(end, file_size) == end

\* lines 87-88
ClampEnd(end, file_size) == IF end > file_size THEN file_size ELSE end

(* ------------------------------- merge --------------------------------- *)
\* a combine that overwrites min with the incoming record's
MergeCity_Overwrite(city, data) ==
    City(data.min,
         IF data.max > city.max THEN data.max ELSE city.max,
         city.sum + data.sum,
         city.count + data.count)

\* lines 120-125
MergeCity(city, data) ==
    City(IF data.min < city.min THEN data.min ELSE city.min,
         IF data.max > city.max THEN data.max ELSE city.max,
         city.sum + data.sum,
         city.count + data.count)

\* lines 117-127: fold one chunk_dict into merged
MergeDict(merged, chunk_dict) ==
    [k \in DOMAIN merged \cup DOMAIN chunk_dict |->
        IF k \notin DOMAIN chunk_dict THEN merged[k]
        ELSE IF k \in DOMAIN merged THEN MergeCity(merged[k], chunk_dict[k])
        ELSE chunk_dict[k]]

(* ------------------------------ report --------------------------------- *)
\* a rounding that truncates toward zero
round_to_infinity_Trunc(num, den) ==
    IF num >= 0 THEN (10 * num) \div den ELSE -((-(10 * num)) \div den)

\* round_to_infinity(x) for x = num/den, den > 0: math.ceil(x * 10), the
\* displayed value in tenths (the .1f rendering of ceil/10)
round_to_infinity(num, den) == -((-(10 * num)) \div den)

RECURSIVE SortedKeys(_)
SortedKeys(S) ==
    IF S = {} THEN <<>>
    ELSE LET m == CHOOSE k \in S : \A o \in S : o = k \/ BytesLess(k, o)
         IN  <<m>> \o SortedKeys(S \ {m})

\* lines 134-143: one output line, its numeric fields in tenths
ReportLine(location, measurements) ==
    [location |-> location,
     min_val  |-> round_to_infinity(measurements.min, 10),
     mean_val |-> round_to_infinity(measurements.sum, measurements.count * 10),
     max_val  |-> round_to_infinity(measurements.max, 10)]

Report(merged) ==
    LET keys == SortedKeys(DOMAIN merged)
    IN  [i \in 1..Len(keys) |-> ReportLine(keys[i], merged[keys[i]])]

(* ------------------------------ inputs --------------------------------- *)
Lines == { <<"a", ";", "1", ".", "5">>,
           <<"b", ";", "-", "2", ".", "2", "6">>,
           <<"a", ";", " ", "7">>,
           <<"a", ";", "x">>,
           <<"a", "b">>,
           <<>> }

RECURSIVE JoinLines(_, _)
JoinLines(ls, trailing) ==
    IF ls = <<>> THEN <<>>
    ELSE IF Len(ls) = 1 THEN (IF trailing THEN Head(ls) \o <<NL>> ELSE Head(ls))
    ELSE Head(ls) \o <<NL>> \o JoinLines(Tail(ls), trailing)

Files == { JoinLines(ls, t) :
             ls \in UNION {[1..n -> Lines] : n \in 1..MaxLines}, t \in BOOLEAN }

(* ------------------------------ actions -------------------------------- *)
Init ==
    /\ file \in Files
    /\ num_processes \in 1..MaxWorkers
    /\ pc = "open"
    /\ start = 0
    /\ chunk_results = <<>>
    /\ status = <<>>
    /\ list_of_chunk_results = <<>>
    /\ merged_results = EmptyDict
    /\ mi = 1
    /\ written = FALSE
    /\ output = <<>>

\* lines 74-80: mmap of an empty file raises
IdentifyChunksOpenEmpty ==
    /\ pc = "open"
    /\ Len(file) = 0
    /\ pc' = "aborted"
    /\ UNCHANGED <<file, num_processes, start, chunk_results, status,
                   list_of_chunk_results, merged_results, mi, written, output>>

IdentifyChunksOpen ==
    /\ pc = "open"
    /\ Len(file) > 0
    /\ pc' = "plan"
    /\ start' = 0
    /\ chunk_results' = <<>>
    /\ UNCHANGED <<file, num_processes, status, list_of_chunk_results,
                   merged_results, mi, written, output>>

\* lines 81-92: one iteration of the while loop
PlanIter ==
    /\ pc = "plan"
    /\ start < Len(file)
    /\ LET end == CandidateEnd(file, start, num_processes)
       IN  /\ chunk_results' = Append(chunk_results, <<start, ClampEnd(end, Len(file))>>)
           /\ IF end > Len(file)
              THEN pc' = "dispatch" /\ start' = start
              ELSE pc' = "plan" /\ start' = end
    /\ UNCHANGED <<file, num_processes, status, list_of_chunk_results,
                   merged_results, mi, written, output>>

\* line 81 false, lines 93-94
PlanExit ==
    /\ pc = "plan"
    /\ start >= Len(file)
    /\ pc' = "dispatch"
    /\ UNCHANGED <<file, num_processes, start, chunk_results, status,
                   list_of_chunk_results, merged_results, mi, written, output>>

\* lines 111-112: starmap hands every range to the pool
Dispatch ==
    /\ pc = "dispatch"
    /\ status' = [i \in 1..Len(chunk_results) |-> "pending"]
    /\ list_of_chunk_results' = [i \in 1..Len(chunk_results) |-> EmptyDict]
    /\ pc' = "join"
    /\ UNCHANGED <<file, num_processes, start, chunk_results,
                   merged_results, mi, written, output>>

\* one pool task: process_chunk on range i, in any order among the tasks
WorkerRun(i) ==
    /\ pc = "join"
    /\ status[i] = "pending"
    /\ LET r == process_chunk(file, chunk_results[i][1], chunk_results[i][2])
       IN  /\ status' = [status EXCEPT ![i] = IF r.ok THEN "done" ELSE "failed"]
           /\ list_of_chunk_results' = [list_of_chunk_results EXCEPT ![i] = r.result]
    /\ UNCHANGED <<file, num_processes, pc, start, chunk_results,
                   merged_results, mi, written, output>>

\* a join that returns once every task has ended, failed or not
JoinReturns_IgnoreFailure(st) == \A i \in DOMAIN st : st[i] # "pending"

\* line 112: starmap returns the list once every task has succeeded
JoinReturns(st) == \A i \in DOMAIN st : st[i] = "done"

\* line 112: starmap re-raises a task's exception
JoinRaises(st) == \E i \in DOMAIN st : st[i] = "failed"

JoinOk ==
    /\ pc = "join"
    /\ JoinReturns(status)
    /\ pc' = "merge"
    /\ merged_results' = EmptyDict
    /\ mi' = 1
    /\ UNCHANGED <<file, num_processes, start, chunk_results, status,
                   list_of_chunk_results, written, output>>

JoinFail ==
    /\ pc = "join"
    /\ JoinRaises(status)
    /\ pc' = "aborted"
    /\ UNCHANGED <<file, num_processes, start, chunk_results, status,
                   list_of_chunk_results, merged_results, mi, written, output>>

\* lines 116-127: one iteration of the outer merge loop
MergeStep ==
    /\ pc = "merge"
    /\ mi <= Len(list_of_chunk_results)
    /\ merged_results' = MergeDict(merged_results, list_of_chunk_results[mi])
    /\ mi' = mi + 1
    /\ UNCHANGED <<file, num_processes, pc, start, chunk_results, status,
                   list_of_chunk_results, written, output>>

MergeExit ==
    /\ pc = "merge"
    /\ mi > Len(list_of_chunk_results)
    /\ pc' = "write"
    /\ UNCHANGED <<file, num_processes, start, chunk_results, status,
                   list_of_chunk_results, merged_results, mi, written, output>>

\* lines 130-144
WriteOutput ==
    /\ pc = "write"
    /\ written' = TRUE
    /\ output' = Report(merged_results)
    /\ pc' = "done"
    /\ UNCHANGED <<file, num_processes, start, chunk_results, status,
                   list_of_chunk_results, merged_results, mi>>

Next ==
    \/ IdentifyChunksOpenEmpty
    \/ IdentifyChunksOpen
    \/ PlanIter
    \/ PlanExit
    \/ Dispatch
    \/ \E i \in DOMAIN status : WorkerRun(i)
    \/ JoinOk
    \/ JoinFail
    \/ MergeStep
    \/ MergeExit
    \/ WriteOutput

Spec == Init /\ [][Next]_vars

(* ------------------- the merge and the report alone -------------------- *)
\* scaled measurements the aggregated records of SpecMerge carry
MergeValues == {-23, 15}

RECURSIVE FoldRecords(_, _, _)
FoldRecords(result, location, ms) ==
    IF ms = <<>> THEN result
    ELSE FoldRecords(UpdateCity(result, location, Head(ms)), location, Tail(ms))

\* PartialResults as process_chunk builds them: records of key a folded by
\* UpdateCity, with or without one record of key b
Partials ==
    { FoldRecords(base, <<"a">>, ms) :
        base \in {EmptyDict, UpdateCity(EmptyDict, <<"b">>, 15)},
        ms \in UNION {[1..n -> MergeValues] : n \in 0..2} }

InitMerge ==
    /\ list_of_chunk_results \in UNION {[1..n -> Partials] : n \in 1..MaxParts}
    /\ pc = "merge"
    /\ merged_results = EmptyDict
    /\ mi = 1
    /\ file = <<>>
    /\ num_processes = 1
    /\ start = 0
    /\ chunk_results = <<>>
    /\ status = <<>>
    /\ written = FALSE
    /\ output = <<>>

NextMerge == MergeStep \/ MergeExit \/ WriteOutput

SpecMerge == InitMerge /\ [][NextMerge]_vars

(* ----------------------- one record, one worker ------------------------ *)
\* value fields: optional sign, one integer digit, one or two fractional digits
ValueTexts ==
    { sg \o <<DigitChars[d]>> \o <<".">> \o fr :
        sg \in {<<>>, <<"-">>},
        d \in 1..10,
        fr \in UNION {[1..n -> {DigitChars[i] : i \in 1..10}] : n \in 1..2} }

InitParse ==
    /\ file \in { <<"a", ";">> \o t \o <<NL>> : t \in ValueTexts }
    /\ num_processes = 1
    /\ pc = "open"
    /\ start = 0
    /\ chunk_results = <<>>
    /\ status = <<>>
    /\ list_of_chunk_results = <<>>
    /\ merged_results = EmptyDict
    /\ mi = 1
    /\ written = FALSE
    /\ output = <<>>

NextParse ==
    \/ IdentifyChunksOpen
    \/ PlanIter
    \/ Dispatch
    \/ \E i \in DOMAIN status : WorkerRun(i)
    \/ JoinOk
    \/ MergeStep
    \/ MergeExit
    \/ WriteOutput

SpecParse == InitParse /\ [][NextParse]_vars

(* ------------------------------ claims --------------------------------- *)
\* identify_chunks has returned its list
PlanReturned == pc \notin {"open", "plan"} /\ Len(file) > 0

ChunkBytes(i) == SubSeq(file, chunk_results[i][1] + 1, chunk_results[i][2])

\* C1: for every file whose single-range run yields a mapping, a completed
\* run with any worker count yields the same global key -> (min, max, sum,
\* count) mapping.
C1_SameAsSingleRange ==
    LET single == process_chunk(file, 0, Len(file))
    IN  (pc = "done" /\ single.ok) => merged_results = single.result

\* C2: the list identify_chunks returns is an exact partition of
\* [0, file_size): it starts at 0, each range starts at the previous end,
\* the last ends at file_size, and every range has start < end.
C2_ExactPartition ==
    PlanReturned =>
        /\ Len(chunk_results) >= 1
        /\ chunk_results[1][1] = 0
        /\ chunk_results[Len(chunk_results)][2] = Len(file)
        /\ \A i \in 1..Len(chunk_results) : chunk_results[i][1] < chunk_results[i][2]
        /\ \A i \in 2..Len(chunk_results) : chunk_results[i][1] = chunk_results[i - 1][2]

C2_Witness ==
    /\ pc = "dispatch"
    /\ Len(chunk_results) >= 2
    /\ num_processes >= 2

\* C3: every returned range ends at file_size or just after a line
\* terminator, whatever the file's content, trailing terminator or not.
C3_LineAligned ==
    PlanReturned =>
        \A i \in 1..Len(chunk_results) :
            \/ chunk_results[i][2] = Len(file)
            \/ /\ chunk_results[i][2] >= 1
               /\ chunk_results[i][2] <= Len(file)
               /\ file[chunk_results[i][2]] = NL

C3_Witness ==
    /\ pc = "dispatch"
    /\ Len(chunk_results) >= 2
    /\ chunk_results[1][2] < Len(file)
    /\ file[Len(file)] # NL

\* the fold of parts in the order p, by the merge loop's combine
RECURSIVE FoldInOrder(_, _, _, _)
FoldInOrder(parts, p, k, merged) ==
    IF k > Len(parts) THEN merged
    ELSE FoldInOrder(parts, p, k + 1, MergeDict(merged, parts[p[k]]))

\* C4: folding the PartialResults into the global mapping in any order
\* gives the mapping the merge loop built in list order.
C4_MergeOrderIndependent ==
    pc \in {"write", "done"} =>
        \A p \in Permutations(1..Len(list_of_chunk_results)) :
            FoldInOrder(list_of_chunk_results, p, 1, EmptyDict) = merged_results

C4_Witness ==
    /\ pc = "write"
    /\ Len(list_of_chunk_results) >= 3
    /\ <<"a">> \in DOMAIN list_of_chunk_results[1]
    /\ <<"a">> \in DOMAIN list_of_chunk_results[2]
    /\ <<"a">> \in DOMAIN list_of_chunk_results[3]
    /\ list_of_chunk_results[1][<<"a">>].min < list_of_chunk_results[2][<<"a">>].min
    /\ list_of_chunk_results[3][<<"a">>].max < list_of_chunk_results[2][<<"a">>].max
    /\ list_of_chunk_results[1] # list_of_chunk_results[3]

\* a line with a delimiter whose value field float() rejects
Unparsable(line) ==
    /\ Strip(line) # <<>>
    /\ Find(line, ";") # -1
    /\ ~FloatParses(Strip(SubSeq(line, Find(line, ";") + 2, Len(line))))

\* the bytes of mm from offset pos on, without the unparsable lines
RECURSIVE WithoutUnparsable(_, _)
WithoutUnparsable(mm, pos) ==
    IF pos >= Len(mm) THEN <<>>
    ELSE LET np   == next_line(pos, mm)
             line == SubSeq(mm, pos + 1, np)
         IN  IF np <= pos THEN <<>>
             ELSE (IF Unparsable(line) THEN <<>> ELSE line) \o WithoutUnparsable(mm, np)

\* C5: a line with a delimiter and an unparsable value is skipped: the
\* invocation on a range starting at 0 does not fail and returns what it
\* returns for the range without such lines.
C5_UnparsableSkipped ==
    \A i \in DOMAIN status :
        (status[i] # "pending" /\ chunk_results[i][1] = 0) =>
            /\ status[i] = "done"
            /\ list_of_chunk_results[i] =
                 ReadLines(WithoutUnparsable(ChunkBytes(i), 0), 0, EmptyDict).result

\* C6: once a process_chunk invocation has failed, the merge is never
\* performed and nothing is written; the merge and the output happen only
\* after every dispatched worker has completed successfully.
C6_AbortOnWorkerFailure ==
    /\ (\E i \in DOMAIN status : status[i] = "failed") =>
          /\ ~written
          /\ output = <<>>
          /\ merged_results = EmptyDict
          /\ pc \in {"join", "aborted"}
    /\ (written \/ pc \in {"merge", "write", "done"}) =>
          /\ Len(status) = Len(chunk_results)
          /\ \A i \in DOMAIN status : status[i] = "done"

C6_Witness ==
    /\ pc = "aborted"
    /\ ~written
    /\ \E i \in DOMAIN status : status[i] = "failed"
    /\ \E i \in DOMAIN status : status[i] = "done"

\* the value field of the one record of a SpecParse file, in hundredths
RecordHundredths ==
    LET t    == SubSeq(file, 3, Len(file) - 1)
        body == Unsigned(t)
        fp   == SubSeq(body, 3, Len(body))
        h    == DigitVal(body[1]) * 100
                + (IF Len(fp) = 1 THEN DigitVal(fp[1]) * 10
                   ELSE DigitVal(fp[1]) * 10 + DigitVal(fp[2]))
    IN  IF t[1] = "-" THEN -h ELSE h

\* C7: the measurement aggregated for a value with one or two fractional
\* digits is a nearest integer to ten times the value.
C7_MeasurementRounded ==
    pc = "done" =>
        LET m == merged_results[<<"a">>].sum
            d == 10 * m - RecordHundredths
        IN  -5 <= d /\ d <= 5

\* C8: the displayed mean in tenths is the least integer >= sum/count, and
\* min and max, already exact tenths, are displayed unchanged.
C8_CeilingMean ==
    written =>
        /\ Len(output) = Cardinality(DOMAIN merged_results)
        /\ \A i \in 1..Len(output) :
              LET c == merged_results[output[i].location]
              IN  /\ output[i].mean_val * c.count >= c.sum
                  /\ (output[i].mean_val - 1) * c.count < c.sum
                  /\ output[i].min_val = c.min
                  /\ output[i].max_val = c.max

C8_Witness ==
    /\ written
    /\ \E i \in 1..Len(output) :
          LET c == merged_results[output[i].location]
          IN  c.sum < 0 /\ c.sum % c.count # 0 /\ c.min < 0 /\ c.max > 0

\* C9: a range that starts at 0 or just after a line terminator has its
\* first line aggregated: the PartialResult is that of every line of the
\* range.
C9_FirstLineAggregated ==
    \A i \in DOMAIN status :
        LET all == ReadLines(ChunkBytes(i), 0, EmptyDict)
        IN  (status[i] = "done" /\ is_new_line(chunk_results[i][1], file) /\ all.ok)
                => list_of_chunk_results[i] = all.result

\* C10: every range start identify_chunks returns is a multiple of the
\* allocation granularity.
C10_StartsAligned ==
    PlanReturned =>
        \A i \in 1..Len(chunk_results) :
            chunk_results[i][1] % ALLOCATIONGRANULARITY = 0

====
